---- MODULE Spec2Model ----
(***************************************************************************)
(* Model of custom_components/ics2000/light.py: the Action Repeater        *)
(* (repeat), the Device Task Worker (KlikAanKlikUitThread) with its FIFO   *)
(* task queue and stop event, and the entity operations turn_on/turn_off   *)
(* of KlikAanKlikUitDevice.                                                *)
(*                                                                         *)
(* queue.Queue guards its deque with one mutex; every method of the queue  *)
(* that holds the mutex for its whole body (put, get's pop, the scan of    *)
(* has_running_threads) is one atomic step here.  A method that takes the  *)
(* mutex twice (add_task: scan, then put) is two steps.  SpecMutex spells   *)
(* out get's taking and releasing of the mutex.                            *)
(***************************************************************************)
EXTENDS Integers, Sequences, FiniteSets, TLC

\* ---- bounds of the model ------------------------------------------------
MaxCalls == 3
MaxTries == 3
MaxSleep == 2

\* the hub's devices (device.id) and the caller threads
Devices == {7, 8, 9}
Producers == {"caller1", "caller2"}

\* config.get('tries', 1)
DefaultTries == 1

\* kwargs.get(ATTR_BRIGHTNESS, 255): full brightness
DefaultBrightness == 255

\* the Dimmer among the devices (line 135)
DimmerId == 7

\* KlikAanKlikUitAction (Enum)
KlikAanKlikUitAction == {"on", "off", "dim"}

\* the actions the callers of add_task submit for a device: device 7 is a
\* Dimmer (line 135) and is dimmed and turned off, the others are switched on
SubmittedActions(device_id) ==
    IF device_id = DimmerId THEN {"dim", "off"} ELSE {"on"}

None == "None"

\* kwargs holds no ATTR_BRIGHTNESS; no level computed
Absent == 0 - 1
NoLevel == 0 - 1

\* no task dict: run()'s `task` before the first get, a caller with no put pending
NoTask == [device_id |-> 0, action |-> "none", params |-> [tries |-> 0], id |-> 0]

VARIABLES
    \* ---- KlikAanKlikUitThread ----
    task_queue,        \* queue.Queue.queue: the deque of task dicts, head first
    unfinished_tasks,  \* queue.Queue.unfinished_tasks (put +1, task_done -1)
    stop_event,        \* threading.Event: is_set()
    wpc,               \* position of the worker thread in run()
    task,              \* run()'s local `task`
    \* ---- caller threads inside add_task ----
    ppc,               \* per producer: "idle" or "put" (scan done, put pending)
    preq,              \* per producer: the task dict built at line 116
    \* ---- configuration / entities ----
    tries,             \* config 'tries' handed to every entity (line 73)
    worker_thread,     \* entities that carry a `worker_thread` attribute
    _state,            \* per entity: KlikAanKlikUitDevice._state
    _brightness,       \* per entity: KlikAanKlikUitDevice._brightness
    \* ---- the hub collaborator ----
    hub_calls,         \* log of hub callable invocations: the id of the task each ran for
    \* ---- history ----
    nextId,            \* calls made so far (add_task, turn_on, turn_off), plus
                       \* one; a task's id is the number of the call that built it
    last_call,         \* the most recent entity call and how it ended
    accepted,          \* the tasks put on the queue, in put order
    dequeued,          \* the tasks returned by get, in order
    dequeued_after_stop \* how many of them get returned with the stop event set

\* ---- one call of repeat(tries, sleep, callable_function) ----
VARIABLES
    r_pc,              \* position in repeat: "for", "call", "sleep", "done", "raised"
    r_tries,           \* argument tries
    r_sleep,           \* argument sleep
    r_raiseAt,         \* the attempt on which callable_function raises (0: never)
    r_i,               \* the loop variable i
    r_trace            \* the calls of callable_function and of time.sleep, in order

\* ---- the queue's lock, as queue.Queue.get takes and releases it ----
VARIABLES
    mutex              \* holder of task_queue.mutex: "free" or "worker"

\* ---- one call of turn_on reaching the Dim branch ----
VARIABLES
    kwargs,            \* kwargs.get(ATTR_BRIGHTNESS): 0..255, or Absent
    level,             \* params['level'] of the Dim task (NoLevel: not computed)
    epc                \* position in turn_on: "off", "line175", "line199", "done"

workerVars == <<task_queue, unfinished_tasks, stop_event, wpc, task>>
producerVars == <<ppc, preq>>
entityVars == <<tries, worker_thread, _state, _brightness>>
historyVars == <<nextId, last_call, accepted, dequeued, dequeued_after_stop>>
repeatVars == <<r_pc, r_tries, r_sleep, r_raiseAt, r_i, r_trace>>
turnOnVars == <<kwargs, level, epc>>
vars == <<workerVars, producerVars, entityVars, hub_calls, historyVars, repeatVars,
          mutex, turnOnVars>>

\* ---- helpers ------------------------------------------------------------
\* threading.Thread.is_alive(): started and run() has not returned
is_alive == wpc \notin {"new", "exited", "raised"}

\* mutant of has_running_threads: only the head of the queue is looked at
has_running_threads_HeadOnly(device_id) ==
    task_queue # <<>> /\ Head(task_queue).device_id = device_id

\* has_running_threads: under task_queue.mutex, any(task.device_id == device_id)
has_running_threads(device_id) ==
    \E i \in 1..Len(task_queue) : task_queue[i].device_id = device_id

\* mutant of QueuePut: appendleft
QueuePut_Front(q, t) == <<t>> \o q

\* queue.Queue._put: deque.append
QueuePut(q, t) == Append(q, t)

\* queue.Queue._get: deque.popleft
QueueGetItem(q) == Head(q)
QueueGetRest(q) == Tail(q)

\* ---- KlikAanKlikUitThread ----------------------------------------------

\* the task dict of line 116; `id` stands for the identity of the dict object
NewTask(device_id, action, id) ==
    [device_id |-> device_id, action |-> action,
     params |-> [tries |-> tries], id |-> id]

\* mutant of Start: a worker that has exited is started again
Start_Again ==
    /\ wpc \in {"new", "exited"}
    /\ wpc' = "check"
    /\ UNCHANGED <<task_queue, unfinished_tasks, stop_event, task>>
    /\ UNCHANGED <<producerVars, entityVars, hub_calls, historyVars, repeatVars>>
    /\ UNCHANGED <<mutex, turnOnVars>>

\* threading.Thread.start(): run() begins at the loop test
Start ==
    /\ wpc = "new"
    /\ wpc' = "check"
    /\ UNCHANGED <<task_queue, unfinished_tasks, stop_event, task>>
    /\ UNCHANGED <<producerVars, entityVars, hub_calls, historyVars, repeatVars>>
    /\ UNCHANGED <<mutex, turnOnVars>>

\* mutant of stop: the worker is interrupted, a task in execution is abandoned
stop_Interrupt ==
    /\ stop_event' = TRUE
    /\ wpc' = IF wpc \in {"process", "task_done"} THEN "exited" ELSE wpc
    /\ UNCHANGED <<task_queue, unfinished_tasks, task>>
    /\ UNCHANGED <<producerVars, entityVars, hub_calls, historyVars, repeatVars>>
    /\ UNCHANGED <<mutex, turnOnVars>>

\* mutant of stop: stop() also discards what is queued
stop_Clear ==
    /\ stop_event' = TRUE
    /\ task_queue' = <<>>
    /\ UNCHANGED <<unfinished_tasks, wpc, task>>
    /\ UNCHANGED <<producerVars, entityVars, hub_calls, historyVars, repeatVars>>
    /\ UNCHANGED <<mutex, turnOnVars>>

\* stop(): stop_event.set()
stop ==
    /\ stop_event' = TRUE
    /\ UNCHANGED <<task_queue, unfinished_tasks, wpc, task>>
    /\ UNCHANGED <<producerVars, entityVars, hub_calls, historyVars, repeatVars>>
    /\ UNCHANGED <<mutex, turnOnVars>>

\* mutant of WhileCondition: `while True`
WhileCondition_True == TRUE

\* mutant of WhileCondition: the queue is drained before the stop is obeyed
WhileCondition_Drain == ~stop_event \/ task_queue # <<>>

\* line 91: the loop condition `not self.stop_event.is_set()`
WhileCondition == ~stop_event

\* run(): `while not self.stop_event.is_set()`
RunLoopTest ==
    /\ wpc = "check"
    /\ wpc' = IF WhileCondition THEN "get" ELSE "exited"
    /\ UNCHANGED <<task_queue, unfinished_tasks, stop_event, task>>
    /\ UNCHANGED <<producerVars, entityVars, hub_calls, historyVars, repeatVars>>
    /\ UNCHANGED <<mutex, turnOnVars>>

\* run(): task_queue.get(timeout=1) returns the head of a non-empty queue
RunGet ==
    /\ wpc = "get"
    /\ task_queue # <<>>
    /\ task' = QueueGetItem(task_queue)
    /\ task_queue' = QueueGetRest(task_queue)
    /\ dequeued' = Append(dequeued, QueueGetItem(task_queue))
    /\ dequeued_after_stop' = dequeued_after_stop + (IF stop_event THEN 1 ELSE 0)
    /\ wpc' = "process"
    /\ UNCHANGED <<unfinished_tasks, stop_event>>
    /\ UNCHANGED <<nextId, last_call, accepted>>
    /\ UNCHANGED <<producerVars, entityVars, hub_calls, repeatVars>>
    /\ UNCHANGED <<mutex, turnOnVars>>

\* run(): get times out on an empty queue, queue.Empty is caught, `continue`
RunGetEmpty ==
    /\ wpc = "get"
    /\ task_queue = <<>>
    /\ wpc' = "check"
    /\ UNCHANGED <<task_queue, unfinished_tasks, stop_event, task>>
    /\ UNCHANGED <<producerVars, entityVars, hub_calls, historyVars, repeatVars>>
    /\ UNCHANGED <<mutex, turnOnVars>>

\* what process_task does to the hub: it reads the task's fields, prints and
\* sleeps; the task's callable_function is not invoked
ProcessTaskHubCalls(t, calls_before) == calls_before

\* process_task(task) returns
process_task ==
    /\ wpc = "process"
    /\ hub_calls' = ProcessTaskHubCalls(task, hub_calls)
    /\ wpc' = "task_done"
    /\ UNCHANGED <<task_queue, unfinished_tasks, stop_event, task>>
    /\ UNCHANGED <<producerVars, entityVars, historyVars, repeatVars>>
    /\ UNCHANGED <<mutex, turnOnVars>>

\* process_task(task) raises: run() catches queue.Empty only, so the
\* exception leaves run() and the thread ends without task_done
process_task_raises ==
    /\ wpc = "process"
    /\ wpc' = "raised"
    /\ UNCHANGED <<task_queue, unfinished_tasks, stop_event, task>>
    /\ UNCHANGED <<producerVars, entityVars, hub_calls, historyVars, repeatVars>>
    /\ UNCHANGED <<mutex, turnOnVars>>

\* mutant of AfterTaskDone: an inner loop that drains the queue before the
\* stop event is looked at again
AfterTaskDone_Drain == "get"

\* where run() goes after task_done: the end of the loop body, so the loop test
AfterTaskDone == "check"

\* run(): task_queue.task_done(), then back to the loop test
RunTaskDone ==
    /\ wpc = "task_done"
    /\ unfinished_tasks' = unfinished_tasks - 1
    /\ wpc' = AfterTaskDone
    /\ UNCHANGED <<task_queue, stop_event, task>>
    /\ UNCHANGED <<producerVars, entityVars, hub_calls, historyVars, repeatVars>>
    /\ UNCHANGED <<mutex, turnOnVars>>

Worker == RunLoopTest \/ RunGet \/ RunGetEmpty \/ process_task \/ RunTaskDone

\* mutant of AddTaskGoesOn: the busy test is lost
AddTaskGoesOn_Always(device_id) == TRUE

\* add_task, line 115: the test that lets the call go on to build and put
AddTaskGoesOn(device_id) == ~has_running_threads(device_id)

\* add_task, first half: `if not self.has_running_threads(device_id)`, and the
\* task dict is built; a busy device ends the call
AddTaskScan(p, device_id, action) ==
    /\ ppc[p] = "idle"
    /\ nextId <= MaxCalls
    /\ nextId' = nextId + 1
    /\ IF AddTaskGoesOn(device_id)
       THEN /\ ppc' = [ppc EXCEPT ![p] = "put"]
            /\ preq' = [preq EXCEPT ![p] = NewTask(device_id, action, nextId)]
       ELSE UNCHANGED <<ppc, preq>>
    /\ UNCHANGED <<last_call, accepted, dequeued, dequeued_after_stop>>
    /\ UNCHANGED <<workerVars, entityVars, hub_calls, repeatVars>>
    /\ UNCHANGED <<mutex, turnOnVars>>

\* add_task, second half: self.task_queue.put(task)
AddTaskPut(p) ==
    /\ ppc[p] = "put"
    /\ task_queue' = QueuePut(task_queue, preq[p])
    /\ unfinished_tasks' = unfinished_tasks + 1
    /\ accepted' = Append(accepted, preq[p])
    /\ ppc' = [ppc EXCEPT ![p] = "idle"]
    /\ preq' = [preq EXCEPT ![p] = NoTask]
    /\ UNCHANGED <<stop_event, wpc, task>>
    /\ UNCHANGED <<nextId, last_call, dequeued, dequeued_after_stop>>
    /\ UNCHANGED <<entityVars, hub_calls, repeatVars>>
    /\ UNCHANGED <<mutex, turnOnVars>>

add_task ==
    \/ \E p \in Producers, d \in Devices : \E a \in SubmittedActions(d) :
          AddTaskScan(p, d, a)
    \/ \E p \in Producers : AddTaskPut(p)

\* ---- task_queue.mutex ---------------------------------------------------
\* queue.Queue.get(timeout=1), line 94, step by step: `with self.not_empty`
\* takes the mutex; while the queue is empty, not_empty.wait(remaining)
\* releases it for the wait and takes it again on waking; when the time is
\* up, Empty is raised; otherwise the head is popped; leaving the `with`
\* releases the mutex.  put, task_done and the scan of has_running_threads
\* take the mutex for their whole body and wait for it while it is held.

\* mutant of MutexAfterGet: get returns with the mutex still held, released
\* only by task_done
MutexAfterGet_Held == "worker"

\* the mutex when get has returned its item: leaving `with self.not_empty`
\* released it
MutexAfterGet == "free"

\* the mutex during not_empty.wait: Condition.wait releases it
MutexWhileWaiting == "free"

\* get: `with self.not_empty:`
GetAcquire ==
    /\ wpc = "get"
    /\ mutex = "free"
    /\ mutex' = "worker"
    /\ wpc' = "get_locked"
    /\ UNCHANGED <<task_queue, unfinished_tasks, stop_event, task>>
    /\ UNCHANGED <<producerVars, entityVars, hub_calls, historyVars, repeatVars>>
    /\ UNCHANGED turnOnVars

\* get: the queue is not empty: item = self._get(), return item
GetPop ==
    /\ wpc = "get_locked"
    /\ task_queue # <<>>
    /\ task' = QueueGetItem(task_queue)
    /\ task_queue' = QueueGetRest(task_queue)
    /\ dequeued' = Append(dequeued, QueueGetItem(task_queue))
    /\ dequeued_after_stop' = dequeued_after_stop + (IF stop_event THEN 1 ELSE 0)
    /\ mutex' = MutexAfterGet
    /\ wpc' = "process"
    /\ UNCHANGED <<unfinished_tasks, stop_event>>
    /\ UNCHANGED <<nextId, last_call, accepted>>
    /\ UNCHANGED <<producerVars, entityVars, hub_calls, repeatVars>>
    /\ UNCHANGED turnOnVars

\* get: the queue is empty and time remains: self.not_empty.wait(remaining)
GetWait ==
    /\ wpc = "get_locked"
    /\ task_queue = <<>>
    /\ mutex' = MutexWhileWaiting
    /\ wpc' = "get_wait"
    /\ UNCHANGED <<task_queue, unfinished_tasks, stop_event, task>>
    /\ UNCHANGED <<producerVars, entityVars, hub_calls, historyVars, repeatVars>>
    /\ UNCHANGED turnOnVars

\* get: the wait ends (notified by a put, or timed out) and takes the mutex
\* again
GetWake ==
    /\ wpc = "get_wait"
    /\ mutex = "free"
    /\ mutex' = "worker"
    /\ wpc' = "get_locked"
    /\ UNCHANGED <<task_queue, unfinished_tasks, stop_event, task>>
    /\ UNCHANGED <<producerVars, entityVars, hub_calls, historyVars, repeatVars>>
    /\ UNCHANGED turnOnVars

\* get: the queue is empty and the second is over: raise Empty, caught at
\* line 97, `continue`
GetEmpty ==
    /\ wpc = "get_locked"
    /\ task_queue = <<>>
    /\ mutex' = "free"
    /\ wpc' = "check"
    /\ UNCHANGED <<task_queue, unfinished_tasks, stop_event, task>>
    /\ UNCHANGED <<producerVars, entityVars, hub_calls, historyVars, repeatVars>>
    /\ UNCHANGED turnOnVars

\* task_done takes the mutex (all_tasks_done shares it) for its body
LockedTaskDone == mutex = "free" /\ RunTaskDone

\* the scan of has_running_threads: `with self.task_queue.mutex`
LockedAddTaskScan(p, device_id, action) ==
    mutex = "free" /\ AddTaskScan(p, device_id, action)

\* put: `with self.not_full`, on the same mutex
LockedAddTaskPut(p) == mutex = "free" /\ AddTaskPut(p)

LockedWorker ==
    \/ RunLoopTest
    \/ GetAcquire
    \/ GetPop
    \/ GetWait
    \/ GetWake
    \/ GetEmpty
    \/ process_task
    \/ LockedTaskDone

locked_add_task ==
    \/ \E d \in Devices : \E a \in SubmittedActions(d) :
          LockedAddTaskScan("caller1", d, a)
    \/ LockedAddTaskPut("caller1")

\* ---- KlikAanKlikUitDevice ----------------------------------------------

\* lines 167-172 of turn_on and 210-215 of turn_off: without a live worker the
\* call logs an error and returns; with one, line 172/215 calls
\* has_running_threads on the class with one argument, which raises TypeError
\* (device_id is missing) before anything is enqueued or assigned
EntityCallResult(device_id) ==
    IF device_id \notin worker_thread \/ ~is_alive
    THEN "unavailable"
    ELSE "TypeError"

\* mutant of EntityHubCalls: the entity transmits in its own thread
EntityHubCalls_Direct(op, device_id, calls_before) == Append(calls_before, 0)

\* what turn_on and turn_off do to the hub: self._hub.turn_on, self._hub.dim
\* and self._hub.turn_off are only named as the task's callable_function
\* (lines 185, 197, 225), never called
EntityHubCalls(op, device_id, calls_before) == calls_before

EntityCall(op, device_id) ==
    /\ nextId <= MaxCalls
    /\ nextId' = nextId + 1
    /\ hub_calls' = EntityHubCalls(op, device_id, hub_calls)
    /\ last_call' = [op |-> op, device_id |-> device_id, alive |-> is_alive,
                     result |-> EntityCallResult(device_id)]
    /\ UNCHANGED <<accepted, dequeued, dequeued_after_stop>>
    /\ UNCHANGED <<workerVars, producerVars, entityVars, repeatVars>>
    /\ UNCHANGED <<mutex, turnOnVars>>

turn_on == \E d \in Devices : EntityCall("turn_on", d)

turn_off == \E d \in Devices : EntityCall("turn_off", d)

\* ---- turn_on: the level of a Dim task ------------------------------------

\* the brightness values a turn_on call may carry
Brightnesses == 0..DefaultBrightness

\* math.ceil(a / b) for a >= 0, b > 0
CeilDiv(a, b) == (a + b - 1) \div b

\* line 199: 'level': math.ceil(self.brightness / 17)
Level(brightness) == CeilDiv(brightness, 17)

\* line 175: self._brightness = kwargs.get(ATTR_BRIGHTNESS, 255)
TurnOnBrightness ==
    /\ epc = "line175"
    /\ _brightness' = [_brightness EXCEPT ![DimmerId] =
                          IF kwargs = Absent THEN DefaultBrightness ELSE kwargs]
    /\ epc' = "line199"
    /\ UNCHANGED <<tries, worker_thread, _state, kwargs, level, mutex>>
    /\ UNCHANGED <<workerVars, producerVars, hub_calls, historyVars, repeatVars>>

\* line 199: the level put into the params of the Dim task
TurnOnDimLevel ==
    /\ epc = "line199"
    /\ level' = Level(_brightness[DimmerId])
    /\ epc' = "done"
    /\ UNCHANGED <<kwargs, mutex>>
    /\ UNCHANGED <<workerVars, producerVars, entityVars, hub_calls, historyVars, repeatVars>>

\* ---- repeat ------------------------------------------------------------

\* mutant of SleepArg: the sleep also follows the final attempt
SleepArg_Always(i, n, sleep) == sleep

\* line 34: the argument of time.sleep after attempt i (0-based)
SleepArg(i, n, sleep) == IF i # n - 1 THEN sleep ELSE 0

Event(ev, arg) == [ev |-> ev, arg |-> arg]

\* line 31: `for i in range(0, tries)`
RepeatFor ==
    /\ r_pc = "for"
    /\ r_pc' = IF r_i < r_tries THEN "call" ELSE "done"
    /\ UNCHANGED <<r_tries, r_sleep, r_raiseAt, r_i, r_trace>>
    /\ UNCHANGED <<workerVars, producerVars, entityVars, hub_calls, historyVars>>
    /\ UNCHANGED <<mutex, turnOnVars>>

\* mutant of AfterCall: the call is wrapped in try/except and the loop goes on
AfterCall_Swallow(raises) == "sleep"

\* line 33 has no try around it: an exception raised by callable_function
\* leaves the loop and repeat; a call that returns goes on to line 34
AfterCall(raises) == IF raises THEN "raised" ELSE "sleep"

\* line 33: callable_function(**kwargs)
RepeatCall ==
    /\ r_pc = "call"
    /\ r_trace' = Append(r_trace, Event("call", r_i + 1))
    /\ r_pc' = AfterCall(r_raiseAt = r_i + 1)
    /\ UNCHANGED <<r_tries, r_sleep, r_raiseAt, r_i>>
    /\ UNCHANGED <<workerVars, producerVars, entityVars, hub_calls, historyVars>>
    /\ UNCHANGED <<mutex, turnOnVars>>

\* line 34: time.sleep(sleep if i != tries - 1 else 0), then the next i
RepeatSleep ==
    /\ r_pc = "sleep"
    /\ r_trace' = Append(r_trace, Event("sleep", SleepArg(r_i, r_tries, r_sleep)))
    /\ r_i' = r_i + 1
    /\ r_pc' = "for"
    /\ UNCHANGED <<r_tries, r_sleep, r_raiseAt>>
    /\ UNCHANGED <<workerVars, producerVars, entityVars, hub_calls, historyVars>>
    /\ UNCHANGED <<mutex, turnOnVars>>

\* ---- specifications ----------------------------------------------------

InitWorker ==
    /\ task_queue = <<>>
    /\ unfinished_tasks = 0
    /\ stop_event = FALSE
    /\ wpc = "new"
    /\ task = NoTask
    /\ ppc = [p \in Producers |-> "idle"]
    /\ preq = [p \in Producers |-> NoTask]
    /\ _state = [d \in Devices |-> None]
    /\ _brightness = [d \in Devices |-> None]
    /\ hub_calls = <<>>
    /\ nextId = 1
    /\ last_call = [op |-> "none", device_id |-> 0, alive |-> FALSE,
                    result |-> "none"]
    /\ accepted = <<>>
    /\ dequeued = <<>>
    /\ dequeued_after_stop = 0
    /\ mutex = "free"

\* no turn_on call under way
TurnOnOff ==
    /\ kwargs = Absent
    /\ level = NoLevel
    /\ epc = "off"

RepeatOff ==
    /\ r_pc = "off"
    /\ r_tries = 0
    /\ r_sleep = 0
    /\ r_raiseAt = 0
    /\ r_i = 0
    /\ r_trace = <<>>

\* the worker after construction, not yet started, under the default
\* configuration
Init ==
    /\ InitWorker
    /\ tries = DefaultTries
    /\ worker_thread = {}
    /\ RepeatOff
    /\ TurnOnOff

\* the worker and its callers
Next == Start \/ stop \/ Worker \/ add_task

Spec == Init /\ [][Next]_vars

\* the worker, its callers and the entities: the platform after setup, with
\* the configured tries and the entities with or without a worker_thread
\* attribute
InitPlatform ==
    /\ InitWorker
    /\ tries \in {DefaultTries, MaxTries}
    /\ worker_thread \in {{}, Devices}
    /\ RepeatOff
    /\ TurnOnOff

NextPlatform == Next \/ turn_on \/ turn_off

SpecPlatform == InitPlatform /\ [][NextPlatform]_vars

\* the worker thread is scheduled fairly: it is never held back for ever, and
\* its queue wait ends after one second at the latest
FairSpec == Spec /\ WF_vars(Worker)

\* one caller thread only
add_task_one_caller ==
    \/ \E d \in Devices : \E a \in SubmittedActions(d) : AddTaskScan("caller1", d, a)
    \/ AddTaskPut("caller1")

NextOneCaller == Start \/ stop \/ Worker \/ add_task_one_caller

SpecOneCaller == Init /\ [][NextOneCaller]_vars

\* one caller thread and the entities, which may or may not carry a
\* worker_thread attribute, under the default configuration
InitEntities ==
    /\ InitWorker
    /\ tries = DefaultTries
    /\ worker_thread \in {{}, Devices}
    /\ RepeatOff
    /\ TurnOnOff

NextEntities == NextOneCaller \/ turn_on \/ turn_off

SpecEntities == InitEntities /\ [][NextEntities]_vars

\* process_task may raise
NextRaise == Next \/ process_task_raises

SpecRaise == Init /\ [][NextRaise]_vars

\* one call of repeat(tries, sleep, callable_function) whose callable raises
\* on attempt r_raiseAt (0: never)
InitRepeat ==
    /\ InitWorker
    /\ tries = 1
    /\ worker_thread = {}
    /\ r_pc = "for"
    /\ r_tries \in 0..MaxTries
    /\ r_sleep \in 0..MaxSleep
    /\ r_raiseAt \in 0..MaxTries
    /\ r_raiseAt <= r_tries
    /\ r_i = 0
    /\ r_trace = <<>>
    /\ TurnOnOff

NextRepeat == RepeatFor \/ RepeatCall \/ RepeatSleep

SpecRepeat == InitRepeat /\ [][NextRepeat]_vars

\* the worker and one caller, with the steps of get and the queue's mutex
\* spelled out
NextMutex == Start \/ stop \/ LockedWorker \/ locked_add_task

SpecMutex == Init /\ [][NextMutex]_vars

\* the expressions of lines 175 and 199 of turn_on, evaluated for every
\* brightness a call may carry and for a call that carries none
InitLevel ==
    /\ InitWorker
    /\ tries = DefaultTries
    /\ worker_thread = Devices
    /\ RepeatOff
    /\ kwargs \in Brightnesses \cup {Absent}
    /\ level = NoLevel
    /\ epc = "line175"

NextLevel == TurnOnBrightness \/ TurnOnDimLevel

SpecLevel == InitLevel /\ [][NextLevel]_vars

\* ---- properties ---------------------------------------------------------

\* the tasks for device d resident in the queue
Resident(d) == {i \in 1..Len(task_queue) : task_queue[i].device_id = d}

\* the worker is executing a task for device d: dequeued, process_task not
\* yet finished
Executing(d) == wpc = "process" /\ task.device_id = d

\* C1: for every device, the tasks for it resident in the queue or being
\* executed by the worker number at most one, whatever the add_task calls
C1_AtMostOneQueuedOrExecuting ==
    \A d \in Devices :
        Cardinality(Resident(d)) + (IF Executing(d) THEN 1 ELSE 0) <= 1

\* C2: the scan and the append of add_task are atomic with respect to each
\* other: the queue never holds two tasks for the same device
C2_ScanAndAppendAtomic ==
    \A d \in Devices : Cardinality(Resident(d)) <= 1

\* a step in which some caller's add_task makes its scan
ScanStep == nextId' = nextId + 1 /\ last_call' = last_call

\* C3: an add_task call for a device with a task resident in the queue is a
\* no-op: the queue and its order stay as they are and no put is left pending
\* (only a call for a device with no resident task goes on to put), and every
\* task the worker then processes is one that was put, processed once
C3_DropOnBusy ==
    [][ /\ ScanStep =>
            /\ task_queue' = task_queue
            /\ unfinished_tasks' = unfinished_tasks
            /\ \A p \in Producers :
                 IF ppc'[p] # ppc[p]
                 THEN Resident(preq'[p].device_id) = {}
                 ELSE preq'[p] = preq[p]
        /\ \A i, j \in 1..Len(dequeued') :
              dequeued'[i].id = dequeued'[j].id => i = j
      ]_vars

\* C3 witness: a call was dropped (fewer tasks were built than calls made)
\* while a task was resident, and the worker has processed the resident one
C3_Witness ==
    /\ nextId - 1 > Len(accepted) + Cardinality({p \in Producers : ppc[p] = "put"})
    /\ Len(accepted) = 1
    /\ dequeued = accepted
    /\ wpc = "task_done"

\* C4: the worker dequeues the tasks in the order in which their add_task
\* calls put them: what was dequeued so far is the front of what was accepted,
\* and the queue holds the rest in that order
C4_FifoOrder ==
    /\ accepted = dequeued \o task_queue
    /\ \A i \in 1..Len(dequeued) : dequeued[i] = accepted[i]

\* C4 witness: three tasks for pairwise distinct devices were accepted and
\* all three dequeued
C4_Witness ==
    /\ Len(dequeued) = 3
    /\ Cardinality({dequeued[i].device_id : i \in 1..3}) = 3
    /\ accepted[1].id > accepted[2].id

\* ---- repeat's trace ----
CallPositions(tr) == {k \in 1..Len(tr) : tr[k].ev = "call"}

\* the seconds slept from position k of the trace up to the next call
RECURSIVE SleptFrom(_, _)
SleptFrom(tr, k) ==
    IF k > Len(tr) \/ tr[k].ev = "call" THEN 0
    ELSE tr[k].arg + SleptFrom(tr, k + 1)

IsLastCall(tr, k) == \A m \in CallPositions(tr) : m <= k

\* C5: repeat(n, s, f) with n >= 1 and f not raising has, on return, invoked f
\* exactly n times, slept s between each two successive invocations (n-1
\* suspensions of length s) and not slept after the final invocation nor
\* before the first
C5_RepeatCount ==
    (r_pc = "done" /\ r_tries >= 1 /\ r_raiseAt = 0) =>
        /\ Cardinality(CallPositions(r_trace)) = r_tries
        /\ SleptFrom(r_trace, 1) = 0
        /\ \A k \in CallPositions(r_trace) :
              SleptFrom(r_trace, k + 1) =
                  IF IsLastCall(r_trace, k) THEN 0 ELSE r_sleep
        /\ Cardinality({k \in 1..Len(r_trace) :
                          r_trace[k].ev = "sleep" /\ r_trace[k].arg > 0})
             = IF r_sleep > 0 THEN r_tries - 1 ELSE 0

\* C5 witness: a repeat of three tries with a positive sleep has returned
C5_Witness ==
    /\ r_pc = "done"
    /\ r_tries = 3
    /\ r_sleep = 2
    /\ r_raiseAt = 0

\* ---- the worker and the hub ----

\* how often a hub callable was invoked for the task with this id
HubCallsFor(id) == Cardinality({k \in 1..Len(hub_calls) : hub_calls[k] = id})

\* C6: a dequeued task is executed through the repeater: when process_task
\* has returned (before task_done and before the next get), the task's
\* callable has been invoked exactly the task's tries times
C6_ProcessedThroughRepeater ==
    wpc = "task_done" => HubCallsFor(task.id) = task.params.tries

C8_StopTerminates ==
    (stop_event /\ wpc # "new") ~> (wpc = "exited")

\* C8 witness: the worker has exited on the stop event with two tasks still
\* queued and a caller about to put a third
C8_Witness ==
    /\ stop_event
    /\ wpc = "exited"
    /\ Len(task_queue) = 2
    /\ \E p \in Producers : ppc[p] = "put"

\* C9: a submission made while the worker is not running is rejected: as long
\* as the worker was never started, whatever add_task, turn_on and turn_off
\* calls were made, the queue is still empty; and a turn_on or turn_off call
\* made while the worker was not alive ended "unavailable"
C9_RejectedWhenNotRunning ==
    /\ wpc = "new" => task_queue = <<>>
    /\ (last_call.op # "none" /\ ~last_call.alive) =>
           last_call.result = "unavailable"

\* C10: a task whose processing raises does not end the worker: from
\* processing a task the worker goes on inside its loop
C10_WorkerSurvivesRaise ==
    [][wpc = "process" => wpc' \in {"process", "task_done", "check", "get"}]_vars

\* C11: repeat does not suppress exceptions: when callable_function raises on
\* attempt k of n, repeat never returns normally and no attempt after k is
\* ever made; when the exception has left repeat, attempts 1..k were made in
\* order, the raising call is the last thing repeat did (no sleep follows it)
\* and only the k-1 sleeps between the attempts took place
C11_RaisePropagates ==
    r_raiseAt >= 1 =>
        /\ r_pc # "done"
        /\ \A m \in CallPositions(r_trace) : r_trace[m].arg <= r_raiseAt
        /\ r_pc = "raised" =>
              /\ Len(r_trace) = 2 * r_raiseAt - 1
              /\ \A a \in 1..r_raiseAt : r_trace[2 * a - 1] = Event("call", a)
              /\ \A a \in 1..(r_raiseAt - 1) : r_trace[2 * a].ev = "sleep"

\* C11 witness: a repeat of three tries whose second attempt raised has been
\* left by the exception
C11_Witness ==
    /\ r_pc = "raised"
    /\ r_tries = 3
    /\ r_raiseAt = 2
    /\ Cardinality(CallPositions(r_trace)) = 2

\* C12: has_running_threads(d) is true exactly when the queue, as it is while
\* the mutex is held, contains a task for d; and the step that evaluates it
\* (the scan of an add_task call) changes neither the queue nor the stop
\* event: the call goes on to put only for a device with no task in the
\* queue, and is dropped only if some device has one
C12_BusyIffQueued ==
    /\ [](\A d \in Devices : has_running_threads(d) <=> Resident(d) # {})
    /\ [][ScanStep =>
            /\ task_queue' = task_queue
            /\ unfinished_tasks' = unfinished_tasks
            /\ stop_event' = stop_event
            /\ \A p \in Producers : ppc'[p] # ppc[p] =>
                  ~has_running_threads(preq'[p].device_id)
            /\ ppc' = ppc => \E d \in Devices : has_running_threads(d)
         ]_vars

\* C12 witness: with a task for one device in the queue, a scan for that
\* device has returned true (its call was dropped) and a scan for another
\* device has returned false (its caller is about to put)
C12_Witness ==
    /\ Len(task_queue) = 1
    /\ nextId - 1 > Len(accepted) + Cardinality({p \in Producers : ppc[p] = "put"})
    /\ \E p \in Producers :
          /\ ppc[p] = "put"
          /\ ~has_running_threads(preq[p].device_id)
          /\ has_running_threads(task_queue[1].device_id)

\* C13: submission does not wait for the worker: whenever the worker is
\* inside process_task or waiting on the empty queue, it does not hold the
\* queue's mutex, so a caller's scan (has_running_threads) and its put can
\* take their step at once
C13_SubmissionNonBlocking ==
    (wpc = "process" \/ wpc = "get_wait") =>
        /\ mutex # "worker"
        /\ ppc["caller1"] = "put" => ENABLED LockedAddTaskPut("caller1")
        /\ (ppc["caller1"] = "idle" /\ nextId <= MaxCalls) =>
              \A d \in Devices : \A a \in SubmittedActions(d) :
                  ENABLED LockedAddTaskScan("caller1", d, a)

\* C13 witness: while the worker is executing a task for a device, an
\* add_task call for the same device has made its scan and its put (the
\* scan came after the dequeue, or it would have seen the task in the queue)
C13_Witness ==
    /\ wpc = "process"
    /\ mutex = "free"
    /\ has_running_threads(task.device_id)

\* ---- serialized execution ----

\* the tasks in execution: returned by get and not yet marked done
\* (put so far: Len(accepted); marked done: put minus unfinished_tasks)
InExecution == Len(dequeued) - (Len(accepted) - unfinished_tasks)

\* C14: at most one task is in execution at any instant, and it is the
\* worker's; every removal from the queue is a get of the worker, made when
\* no task is in execution, and no step of a producer (add_task, turn_on,
\* turn_off) removes from the queue or invokes a hub callable
C14_SerializedExecution ==
    /\ [](/\ InExecution \in {0, 1}
          /\ InExecution = 1 <=> wpc \in {"process", "task_done"})
    /\ [][ /\ (Len(task_queue') < Len(task_queue) \/ dequeued' # dequeued) =>
               /\ wpc = "get" /\ wpc' = "process"
               /\ InExecution = 0
               /\ task_queue' = Tail(task_queue)
               /\ dequeued' = Append(dequeued, Head(task_queue))
               /\ nextId' = nextId /\ ppc' = ppc
           /\ (nextId' # nextId \/ ppc' # ppc) => hub_calls' = hub_calls
           /\ hub_calls' # hub_calls => wpc = "process"
         ]_vars

\* C14 witness: with callers and an entity call around it, the worker is
\* executing its second task while nothing else is in execution
C14_Witness ==
    /\ Len(dequeued) = 2
    /\ wpc = "process"
    /\ InExecution = 1
    /\ last_call.op = "turn_on"

\* C15: stop() does not interrupt a task in execution: setting the stop event
\* moves neither the worker nor its task; from process_task the worker goes
\* only to task_done, and from task_done, marking the task done, only to the
\* loop test; it leaves the loop only from the loop test, with the stop event
\* set and every task it dequeued marked done
C15_InFlightTaskCompletes ==
    /\ [](wpc = "exited" => InExecution = 0)
    /\ [][ /\ stop_event' # stop_event =>
               /\ wpc' = wpc /\ task' = task
               /\ task_queue' = task_queue
               /\ unfinished_tasks' = unfinished_tasks
           /\ (wpc = "process" /\ wpc' # wpc) =>
               /\ wpc' = "task_done" /\ task' = task
           /\ (wpc = "task_done" /\ wpc' # wpc) =>
               /\ wpc' = "check"
               /\ unfinished_tasks' = unfinished_tasks - 1
           /\ (wpc' = "exited" /\ wpc # "exited") =>
               /\ wpc = "check" /\ stop_event
               /\ InExecution = 0
         ]_vars

\* C15 witness: with the stop event set and tasks still queued, the worker
\* has finished processing its dequeued task and is about to mark it done
C15_Witness ==
    /\ stop_event
    /\ wpc = "task_done"
    /\ InExecution = 1
    /\ task_queue # <<>>

\* ---- lifecycle ----

\* the worker's lifecycle state: Stopped once run() has returned; otherwise
\* StopRequested once the stop event is set; otherwise Running (or not yet
\* started)
Lifecycle ==
    IF wpc = "exited" THEN "Stopped"
    ELSE IF stop_event THEN "StopRequested"
    ELSE "Running"

LifecycleRank(l) ==
    IF l = "Running" THEN 1 ELSE IF l = "StopRequested" THEN 2 ELSE 3

\* C16: the lifecycle only moves forward, Running -> StopRequested ->
\* Stopped: the stop event, once set, is never cleared; a worker that has
\* exited stays exited and dequeues nothing; and the worker is Stopped only
\* with the stop event set, going there from StopRequested
C16_LifecycleForward ==
    /\ [](wpc = "exited" => stop_event)
    /\ [][ /\ stop_event => stop_event'
           /\ wpc = "exited" =>
               /\ wpc' = "exited"
               /\ dequeued' = dequeued
               /\ task' = task
           /\ LifecycleRank(Lifecycle') >= LifecycleRank(Lifecycle)
           /\ (Lifecycle' = "Stopped" /\ Lifecycle # "Stopped") =>
               Lifecycle = "StopRequested"
         ]_vars

\* C16 witness: the worker ran, dequeued two tasks, was asked to stop and
\* has exited, and a caller is still at work
C16_Witness ==
    /\ Lifecycle = "Stopped"
    /\ Len(dequeued) = 2
    /\ \E p \in Producers : ppc[p] = "put"

AppendsTaskFor(d) ==
    /\ Len(task_queue') = Len(task_queue) + 1
    /\ task_queue'[Len(task_queue')].device_id = d

C19_AtMostOneDequeueAfterStop ==
    /\ dequeued_after_stop <= 1
    /\ dequeued_after_stop <= Len(dequeued)
    /\ dequeued_after_stop = 1 => stop_event /\ wpc # "get"

\* C19 witness: the worker has exited having dequeued one task after stop()
\* and left two in the queue
C19_Witness ==
    /\ wpc = "exited"
    /\ dequeued_after_stop = 1
    /\ Len(task_queue) = 2

\* C20: once the worker has exited, the tasks left in the queue are never
\* executed and never removed: the worker stays exited and dequeues nothing,
\* the queue only grows at its tail, so has_running_threads stays true for
\* every device with a task in it; an add_task scan for such a device is
\* dropped (only a caller whose device has no task in the queue goes on),
\* and a caller that goes on still appends its task to the queue
C20_LeftTasksStay ==
    [][wpc = "exited" =>
          /\ wpc' = "exited"
          /\ dequeued' = dequeued
          /\ hub_calls' = hub_calls
          /\ Len(task_queue') >= Len(task_queue)
          /\ SubSeq(task_queue', 1, Len(task_queue)) = task_queue
          /\ \A d \in Devices : Resident(d) # {} => Resident(d)' # {}
          /\ ScanStep =>
                /\ task_queue' = task_queue
                /\ \A p \in Producers : ppc'[p] # ppc[p] =>
                      Resident(preq'[p].device_id) = {}
                /\ ppc' = ppc => task_queue # <<>>
          /\ \A p \in Producers : (ppc[p] = "put" /\ ppc'[p] = "idle") =>
                task_queue' = Append(task_queue, preq[p])
      ]_vars

\* C20 witness: the worker has exited without dequeuing anything, a task for
\* the dimmer is left in the queue, a call was dropped, and a caller whose
\* device has no task in the queue is about to append
C20_Witness ==
    /\ wpc = "exited"
    /\ dequeued = <<>>
    /\ Resident(DimmerId) # {}
    /\ nextId - 1 > Len(accepted) + Cardinality({p \in Producers : ppc[p] = "put"})
    /\ \E p \in Producers : ppc[p] = "put" /\ Resident(preq[p].device_id) = {}

====
